---- MODULE Spec2Model ----
(***************************************************************************)
(* Tic-Tac-Toe rules and minimax search of tictactoe.py.                   *)
(*                                                                         *)
(* A board is the Python list of three rows of three cells; cell (i, j)    *)
(* of the Python code (indices 0..2) is b[i+1][j+1] here.  An action is    *)
(* the Python tuple (i, j), kept 0-based.                                  *)
(***************************************************************************)
EXTENDS Integers, Sequences, FiniteSets, TLC

\* ---------------------------------------------------------------- bounds
\* minimax is invoked on boards with at most this many empty cells
MaxSearchEmpty == 6

\* the search is traced, frame by frame, from boards with at most this many
\* empty cells
MaxTraceEmpty == 2

\* the coordinates passed to result() range over -(MaxIndex + 1) .. MaxIndex
MaxIndex == 3

\* ------------------------------------------------------------- constants
X == "X"
O == "O"
None == "None"
EMPTY == None
\* None where an action (a tuple) is expected
NoAction == <<>>
\* math.inf: any number above every utility
Inf == 2

Marks == {X, O, EMPTY}

\* range(3) x range(3), in the row-major order in which actions() inserts
Cells == <<<<0,0>>, <<0,1>>, <<0,2>>, <<1,0>>, <<1,1>>, <<1,2>>, <<2,0>>, <<2,1>>, <<2,2>>>>

\* ------------------------------------------------------------ board model
initial_state == <<<<EMPTY, EMPTY, EMPTY>>, <<EMPTY, EMPTY, EMPTY>>, <<EMPTY, EMPTY, EMPTY>>>>

\* row.count(m)
RowCount(row, m) ==
  (IF row[1] = m THEN 1 ELSE 0) + (IF row[2] = m THEN 1 ELSE 0) + (IF row[3] = m THEN 1 ELSE 0)

\* sum(row.count(m) for row in board)
Count(b, m) == RowCount(b[1], m) + RowCount(b[2], m) + RowCount(b[3], m)

\* slip: the turn test inverted, so that O opens the game
player_o_first(b) == IF Count(b, X) = Count(b, O) THEN O ELSE X

player(b) == IF Count(b, X) = Count(b, O) THEN X ELSE O

actions(b) == {Cells[k] : k \in {n \in 1..9 : b[Cells[n][1] + 1][Cells[n][2] + 1] = EMPTY}}

\* result() for an action that passed the occupancy test: the copy with the
\* mover's mark written at the action's cell
result(b, action) == [b EXCEPT ![action[1] + 1][action[2] + 1] = player(b)]

\* ----------------------------------------------------------- rules engine
RowWin(b, row) == b[row][1] # None /\ b[row][1] = b[row][2] /\ b[row][1] = b[row][3]

check_row_wins(b) ==
  IF RowWin(b, 1) THEN b[1][1]
  ELSE IF RowWin(b, 2) THEN b[2][1]
  ELSE IF RowWin(b, 3) THEN b[3][1]
  ELSE None

ColWin(b, col) == b[1][col] # None /\ b[1][col] = b[2][col] /\ b[1][col] = b[3][col]

check_column_wins(b) ==
  IF ColWin(b, 1) THEN b[1][1]
  ELSE IF ColWin(b, 2) THEN b[1][2]
  ELSE IF ColWin(b, 3) THEN b[1][3]
  ELSE None

\* slip: only the main diagonal is tested
check_diagonal_wins_main_only(b) ==
  LET candidate == b[2][2]
  IN IF candidate # None /\ candidate = b[1][1] /\ candidate = b[3][3]
     THEN candidate
     ELSE None

\* `a and (p) or (q)` groups as `(a and p) or q`; the value returned is the
\* centre cell, which is None when the centre is empty
check_diagonal_wins(b) ==
  LET candidate == b[2][2]
  IN IF (candidate # None /\ (candidate = b[1][1] /\ candidate = b[3][3]))
        \/ (candidate = b[1][3] /\ candidate = b[3][1])
     THEN candidate
     ELSE None

winner(b) ==
  LET by_row == check_row_wins(b)
  IN IF by_row # None THEN by_row
     ELSE LET by_column == check_column_wins(b)
          IN IF by_column # None THEN by_column
             ELSE check_diagonal_wins(b)

\* slip: only the first row is tested
full_board_first_row(b) == \A col \in 1..3 : b[1][col] # EMPTY

full_board(b) == \A row \in 1..3 : \A col \in 1..3 : b[row][col] # EMPTY

\* slip: a full board without a winner is not seen as the end
terminal_on_win_only(b) == winner(b) # None

terminal(b) == IF winner(b) # None THEN TRUE ELSE full_board(b)

\* slip: a win of O scored like a win of X
utility_any_winner(b) == IF winner(b) # None THEN 1 ELSE 0

utility(b) ==
  LET potential_winner == winner(b)
  IN IF potential_winner = X THEN 1
     ELSE IF potential_winner = O THEN -1
     ELSE 0

\* ---------------------------------------------------------- search engine
\* The iteration order of the set actions(b) is not fixed by the language.
\* An order is a sequence enumerating the set; IterOrder is the insertion
\* (row-major) order and Orders(b) is every order.
IterOrder(b) == SelectSeq(Cells, LAMBDA a : b[a[1] + 1][a[2] + 1] = EMPTY)

RECURSIVE Perms(_)
Perms(S) == IF S = {} THEN {<<>>} ELSE UNION {{<<a>> \o p : p \in Perms(S \ {a})} : a \in S}

Orders(b) == Perms(actions(b))

\* the orders that start with any one action and go on in insertion order;
\* the loops keep the first action in order that attains the best score, so
\* these orders produce every value that some order produces
FrontOrders(b) ==
  {<<first>> \o SelectSeq(IterOrder(b), LAMBDA a : a # first) : first \in actions(b)}

\* minimax evaluates the loop of its own call under several orders; the
\* scores of the loop body do not depend on the order, so that call tabulates
\* them once in `memo` and each order's loop reads them.  The recursive
\* calls carry no table and compute each score where the loop needs it.
NoMemo == <<>>

RECURSIVE max_loop(_, _, _, _, _, _), min_loop(_, _, _, _, _, _), max_value(_), min_value(_)

\* the for-loop of max_value over `order`, from position i on
max_loop(b, order, memo, i, best_score, best_action) ==
  IF i > Len(order) THEN <<best_score, best_action>>
  ELSE LET action == order[i]
           score_after_O ==
             IF memo = NoMemo THEN min_value(result(b, action))[1] ELSE memo[action]
       IN IF score_after_O > best_score
          THEN max_loop(b, order, memo, i + 1, score_after_O, action)
          ELSE max_loop(b, order, memo, i + 1, best_score, best_action)

\* slip: the return statement indented into the loop, so that min_value
\* returns after its first iteration
min_loop_returns_in_loop(b, order, memo, i, best_score, best_action) ==
  IF i > Len(order) THEN <<best_score, best_action>>
  ELSE LET action == order[i]
           score_after_X ==
             IF memo = NoMemo THEN max_value(result(b, action))[1] ELSE memo[action]
       IN IF score_after_X < best_score
          THEN <<score_after_X, action>>
          ELSE <<best_score, best_action>>

\* the for-loop of min_value over `order`, from position i on
min_loop(b, order, memo, i, best_score, best_action) ==
  IF i > Len(order) THEN <<best_score, best_action>>
  ELSE LET action == order[i]
           score_after_X ==
             IF memo = NoMemo THEN max_value(result(b, action))[1] ELSE memo[action]
       IN IF score_after_X < best_score
          THEN min_loop(b, order, memo, i + 1, score_after_X, action)
          ELSE min_loop(b, order, memo, i + 1, best_score, best_action)

\* slip: the search starts from a best score of 0 instead of -inf
max_value_in_from_zero(b, order, memo) ==
  IF terminal(b) THEN <<utility(b), NoAction>>
  ELSE max_loop(b, order, memo, 1, 0, NoAction)

\* max_value(board) with its loop running in `order`: the pair it returns
max_value_in(b, order, memo) ==
  IF terminal(b) THEN <<utility(b), NoAction>>
  ELSE max_loop(b, order, memo, 1, -Inf, NoAction)

\* slip: min_value written as a copy of max_value, keeping the greatest score
min_value_in_maximising(b, order, memo) ==
  IF terminal(b) THEN <<utility(b), NoAction>>
  ELSE max_loop(b, order, memo, 1, -Inf, NoAction)

min_value_in(b, order, memo) ==
  IF terminal(b) THEN <<utility(b), NoAction>>
  ELSE min_loop(b, order, memo, 1, Inf, NoAction)

\* the recursive calls, iterating in insertion order
max_value(b) == max_value_in(b, IterOrder(b), NoMemo)

min_value(b) == min_value_in(b, IterOrder(b), NoMemo)

\* the set of values minimax(b) returns over the iteration orders `orders`
minimax(b, orders) ==
  IF terminal(b) THEN {NoAction}
  ELSE IF player(b) = X
       THEN UNION {{max_value_in(b, order, memo)[2] : order \in orders} :
                     memo \in {[action \in actions(b) |-> min_value(result(b, action))[1]]}}
  ELSE IF player(b) = O
       THEN UNION {{min_value_in(b, order, memo)[2] : order \in orders} :
                     memo \in {[action \in actions(b) |-> max_value(result(b, action))[1]]}}
  ELSE {NoAction}

\* ------------------------------------------------------------------ state
VARIABLES
  board,   \* the board the caller holds (the input of the call at hand)
  pc,      \* where the caller is
  ret,     \* the value the last call returned
  arg,     \* the action passed to result()
  heap,    \* the row lists that exist, by identity
  b_ref,   \* the caller's board as a list of row identities
  stack    \* the frames of max_value / min_value that are active

vars == <<board, pc, ret, arg, heap, b_ref, stack>>

Empties(b) == Count(b, EMPTY)

\* ---------------------------------------------------- play and best move
Init ==
  /\ board = initial_state
  /\ pc = "play"
  /\ ret = NoAction
  /\ arg = <<>>
  /\ heap = <<>>
  /\ b_ref = <<>>
  /\ stack = <<>>

\* a legal move is made on a board that is not over
Play ==
  /\ ~terminal(board)
  /\ \E action \in actions(board) : board' = result(board, action)
  /\ pc' = "play"
  /\ ret' = NoAction
  /\ UNCHANGED <<arg, heap, b_ref, stack>>

\* the caller asks for the best move
Minimax ==
  /\ pc = "play"
  /\ Empties(board) <= MaxSearchEmpty
  /\ \E move \in minimax(board, Orders(board)) : ret' = move
  /\ pc' = "searched"
  /\ UNCHANGED <<board, arg, heap, b_ref, stack>>

Next == Play \/ Minimax

Spec == Init /\ [][Next]_vars

\* -------------------------------------------------------------- self-play
\* both players take the move minimax returns until the game is over
SelfPlayInit ==
  /\ board = initial_state
  /\ pc = "think"
  /\ ret = NoAction
  /\ arg = <<>>
  /\ heap = <<>>
  /\ b_ref = <<>>
  /\ stack = <<>>

Think ==
  /\ pc = "think"
  /\ ~terminal(board)
  /\ \E move \in minimax(board, FrontOrders(board)) : ret' = move
  /\ pc' = "move"
  /\ UNCHANGED <<board, arg, heap, b_ref, stack>>

Move ==
  /\ pc = "move"
  /\ board' = result(board, ret)
  /\ pc' = "think"
  /\ ret' = NoAction
  /\ UNCHANGED <<arg, heap, b_ref, stack>>

GameOver ==
  /\ pc = "think"
  /\ terminal(board)
  /\ pc' = "over"
  /\ UNCHANGED <<board, ret, arg, heap, b_ref, stack>>

SelfPlayNext == Think \/ Move \/ GameOver

\* The loop keeps running.  Think is enabled exactly when pc = "think" and the
\* board is not terminal (minimax returns a move under every order), so weak
\* fairness of Think is stated through that enabling condition: the caller is
\* not left forever about to think on a board that is not over.
SelfPlayFairness ==
  /\ WF_vars(Move)
  /\ WF_vars(GameOver)
  /\ []<>(pc # "think" \/ terminal(board))

SelfPlaySpec == SelfPlayInit /\ [][SelfPlayNext]_vars /\ SelfPlayFairness

\* ------------------------------------------------------ rules on any board
Rows == {<<a, b, c>> : a \in Marks, b \in Marks, c \in Marks}

\* every 3x3 grid over the three marks
AllBoards == {<<r1, r2, r3>> : r1 \in Rows, r2 \in Rows, r3 \in Rows}

RulesInit ==
  /\ board \in AllBoards
  /\ pc = "given"
  /\ ret = <<>>
  /\ arg = <<>>
  /\ heap = <<>>
  /\ b_ref = <<>>
  /\ stack = <<>>

\* the caller reads what the rules engine says about its board
Evaluate ==
  /\ pc = "given"
  /\ ret' = [player   |-> player(board),
             actions  |-> actions(board),
             winner   |-> winner(board),
             terminal |-> terminal(board),
             utility  |-> utility(board)]
  /\ pc' = "evaluated"
  /\ UNCHANGED <<board, arg, heap, b_ref, stack>>

RulesNext == Evaluate

RulesSpec == RulesInit /\ [][RulesNext]_vars

\* ------------------------------------------- result() on lists in memory
\* A board is a list of three row lists.  Lists are objects: `heap` maps the
\* identity of every row list that exists to its content, and a board is
\* known by the identities of its rows.  Two boards alias when they have a
\* row identity in common.
NumRowIds == 6

RowIds == 1..NumRowIds

\* a row identity that no board uses
Unused == <<>>

NoBoard == <<>>

\* the content of the board whose rows are `ref`
Deref(h, ref) == <<h[ref[1]], h[ref[2]], h[ref[3]]>>

\* list[i] for a list of length 3: the 1-based position read, 0 for IndexError
Index(i) ==
  IF 0 <= i /\ i < 3 THEN i + 1
  ELSE IF -3 <= i /\ i < 0 THEN i + 4
  ELSE 0

\* the identities of three new row lists
NewRows(h, ref) ==
  LET free == {id \in RowIds : h[id] = Unused}
      first == CHOOSE id \in free : \A other \in free : id <= other
      second == CHOOSE id \in free \ {first} : \A other \in free \ {first} : id <= other
      third == CHOOSE id \in free \ {first, second} :
                  \A other \in free \ {first, second} : id <= other
  IN <<first, second, third>>

\* slip: copy.copy(board), a new outer list holding the same row lists
copy_shallow(h, ref) == [heap |-> h, ref |-> ref]

\* copy.deepcopy(board): a new list of new row lists with the same content
deepcopy(h, ref) ==
  LET new == NewRows(h, ref)
  IN [heap |-> [id \in RowIds |->
                  IF id = new[1] THEN h[ref[1]]
                  ELSE IF id = new[2] THEN h[ref[2]]
                  ELSE IF id = new[3] THEN h[ref[3]]
                  ELSE h[id]],
      ref  |-> new]

\* slip: the occupancy test left out
result_call_unchecked(h, ref, action) ==
  LET row == action[1]
      column == action[2]
  IN IF Index(row) = 0 \/ Index(column) = 0
     THEN [status |-> "raised", exc |-> "IndexError", heap |-> h, ref |-> NoBoard]
     ELSE LET next_board == deepcopy(h, ref)
          IN [status |-> "returned",
              exc    |-> None,
              heap   |-> [next_board.heap EXCEPT
                            ![next_board.ref[Index(row)]][Index(column)] = player(Deref(h, ref))],
              ref    |-> next_board.ref]

\* result(board, action) as a call: what it raises or returns, and the heap
\* it leaves
result_call(h, ref, action) ==
  LET row == action[1]
      column == action[2]
  IN IF Index(row) = 0 \/ Index(column) = 0
     THEN [status |-> "raised", exc |-> "IndexError", heap |-> h, ref |-> NoBoard]
     ELSE IF h[ref[Index(row)]][Index(column)] # EMPTY
     THEN [status |-> "raised", exc |-> "Exception", heap |-> h, ref |-> NoBoard]
     ELSE LET next_board == deepcopy(h, ref)
          IN [status |-> "returned",
              exc    |-> None,
              heap   |-> [next_board.heap EXCEPT
                            ![next_board.ref[Index(row)]][Index(column)] = player(Deref(h, ref))],
              ref    |-> next_board.ref]

ActionInputs == (-(MaxIndex + 1) .. MaxIndex) \X (-(MaxIndex + 1) .. MaxIndex)

\* the rows that stay when the caller holds only the board `keep`
Collect(h, keep) ==
  [id \in RowIds |-> IF id \in {keep[1], keep[2], keep[3]} THEN h[id] ELSE Unused]

ApplyInit ==
  /\ heap = [id \in RowIds |-> IF id <= 3 THEN <<EMPTY, EMPTY, EMPTY>> ELSE Unused]
  /\ b_ref = <<1, 2, 3>>
  /\ board = <<>>
  /\ pc = "idle"
  /\ ret = [exc |-> None, ref |-> NoBoard]
  /\ arg = <<>>
  /\ stack = <<>>

\* the caller calls result(board, action)
CallResult ==
  /\ pc = "idle"
  /\ \E action \in ActionInputs :
        LET r == result_call(heap, b_ref, action)
        IN /\ arg' = action
           /\ heap' = r.heap
           /\ ret' = [exc |-> r.exc, ref |-> r.ref]
           /\ pc' = r.status
  /\ UNCHANGED <<board, b_ref, stack>>

\* the caller goes on with the board that was returned
Adopt ==
  /\ pc = "returned"
  /\ b_ref' = ret.ref
  /\ heap' = Collect(heap, ret.ref)
  /\ ret' = [exc |-> None, ref |-> NoBoard]
  /\ arg' = <<>>
  /\ pc' = "idle"
  /\ UNCHANGED <<board, stack>>

\* the caller drops the outcome and keeps its board, as the search does
\* before it expands the next branch from the same board
Drop ==
  /\ pc \in {"returned", "raised"}
  /\ heap' = Collect(heap, b_ref)
  /\ ret' = [exc |-> None, ref |-> NoBoard]
  /\ arg' = <<>>
  /\ pc' = "idle"
  /\ UNCHANGED <<board, b_ref, stack>>

ApplyNext == CallResult \/ Adopt \/ Drop

ApplySpec == ApplyInit /\ [][ApplyNext]_vars

\* ------------------------------------------------- the search, call by call
\* minimax(board) traced through its calls.  `stack` holds one frame per
\* active call of max_value / min_value, the innermost last.  A frame is "at
\* entry" before the terminal test, "in loop" between iterations and "in
\* call" while the call of its loop body is active.
Frame(fn, b) ==
  [fn |-> fn, board |-> b, at |-> "entry", todo |-> {},
   best_score |-> 0, best_action |-> NoAction, action |-> NoAction]

Callee(fn) == IF fn = "max_value" THEN "min_value" ELSE "max_value"

\* the comparison of the loop body: the frame after the call for its
\* current action came back with `score`
AfterCall(frame, score) ==
  IF (frame.fn = "max_value" /\ score > frame.best_score)
     \/ (frame.fn = "min_value" /\ score < frame.best_score)
  THEN [frame EXCEPT !.at = "loop", !.best_score = score,
                     !.best_action = frame.action, !.action = NoAction]
  ELSE [frame EXCEPT !.at = "loop", !.action = NoAction]

\* boards with as many X as O or one more, and few enough empty cells
TraceBoards ==
  {b \in AllBoards :
     /\ Empties(b) <= MaxTraceEmpty
     /\ Count(b, X) - Count(b, O) \in {0, 1}}

SearchInit ==
  /\ board \in TraceBoards
  /\ pc = "call"
  /\ ret = NoAction
  /\ stack = <<>>
  /\ arg = <<>>
  /\ heap = <<>>
  /\ b_ref = <<>>

\* minimax(board): None on a terminal board, else the call of max_value or
\* min_value
CallMinimax ==
  /\ pc = "call"
  /\ IF terminal(board)
     THEN /\ ret' = NoAction
          /\ pc' = "done"
          /\ UNCHANGED stack
     ELSE /\ stack' = <<Frame(IF player(board) = X THEN "max_value" ELSE "min_value", board)>>
          /\ pc' = "search"
          /\ UNCHANGED ret
  /\ UNCHANGED <<board, arg, heap, b_ref>>

\* the innermost call returns <<score, action>>: its caller's loop goes on,
\* or minimax returns the action
Return(score, action) ==
  IF Len(stack) = 1
  THEN /\ stack' = <<>>
       /\ ret' = action
       /\ pc' = "done"
  ELSE /\ stack' = [SubSeq(stack, 1, Len(stack) - 1) EXCEPT
                       ![Len(stack) - 1] = AfterCall(stack[Len(stack) - 1], score)]
       /\ UNCHANGED <<ret, pc>>

\* the terminal test of a call: return the utility, or start the loop
Enter ==
  /\ pc = "search"
  /\ stack[Len(stack)].at = "entry"
  /\ LET frame == stack[Len(stack)]
     IN IF terminal(frame.board)
        THEN Return(utility(frame.board), NoAction)
        ELSE /\ stack' = [stack EXCEPT ![Len(stack)] =
                            [frame EXCEPT !.at = "loop",
                                          !.todo = actions(frame.board),
                                          !.best_score = IF frame.fn = "max_value" THEN -Inf ELSE Inf]]
             /\ UNCHANGED <<ret, pc>>
  /\ UNCHANGED <<board, arg, heap, b_ref>>

\* one iteration of the loop: the next action of the set, in any order, and
\* the call on the board that results from it
Iterate ==
  /\ pc = "search"
  /\ stack[Len(stack)].at = "loop"
  /\ LET frame == stack[Len(stack)]
     IN \E action \in frame.todo :
          stack' = Append([stack EXCEPT ![Len(stack)] =
                             [frame EXCEPT !.at = "call",
                                           !.todo = frame.todo \ {action},
                                           !.action = action]],
                          Frame(Callee(frame.fn), result(frame.board, action)))
  /\ UNCHANGED <<board, pc, ret, arg, heap, b_ref>>

\* the loop is over: return best_score, best_action
Finish ==
  /\ pc = "search"
  /\ stack[Len(stack)].at = "loop"
  /\ stack[Len(stack)].todo = {}
  /\ Return(stack[Len(stack)].best_score, stack[Len(stack)].best_action)
  /\ UNCHANGED <<board, arg, heap, b_ref>>

SearchNext == CallMinimax \/ Enter \/ Iterate \/ Finish

\* the interpreter runs the call to its end
SearchSpec == SearchInit /\ [][SearchNext]_vars /\ WF_vars(SearchNext)

\* ------------------------------------------------- reference definitions
\* the eight lines of the grid, as sets of (row, column) positions 1..3
Lines ==
  {{<<r, 1>>, <<r, 2>>, <<r, 3>>} : r \in 1..3}
    \cup {{<<1, c>>, <<2, c>>, <<3, c>>} : c \in 1..3}
    \cup {{<<1, 1>>, <<2, 2>>, <<3, 3>>}, {<<1, 3>>, <<2, 2>>, <<3, 1>>}}

HasLine(b, m) == \E line \in Lines : \A c \in line : b[c[1]][c[2]] = m

EmptyCells(b) == {c \in (0..2) \X (0..2) : b[c[1] + 1][c[2] + 1] = EMPTY}

Marked(b, m) == Cardinality({c \in (1..3) \X (1..3) : b[c[1]][c[2]] = m})

Opponent(m) == IF m = X THEN O ELSE X

Max(S) == CHOOSE s \in S : \A t \in S : t <= s

Min(S) == CHOOSE s \in S : \A t \in S : t >= s

\* the game-theoretic value of a board with mark m to move: X maximises, O
\* minimises, a finished game is worth +1 / -1 / 0
RECURSIVE GameValue(_, _)
GameValue(b, m) ==
  IF HasLine(b, X) THEN 1
  ELSE IF HasLine(b, O) THEN -1
  ELSE IF EmptyCells(b) = {} THEN 0
  ELSE IF m = X
       THEN Max({GameValue([b EXCEPT ![c[1] + 1][c[2] + 1] = m], O) : c \in EmptyCells(b)})
       ELSE Min({GameValue([b EXCEPT ![c[1] + 1][c[2] + 1] = m], X) : c \in EmptyCells(b)})

\* the mark to move on a board reached by legal play
ToMove(b) == IF Marked(b, X) = Marked(b, O) THEN X ELSE O

GameIsOver(b) == HasLine(b, X) \/ HasLine(b, O) \/ EmptyCells(b) = {}

\* the value of each move of the mover on b
MoveValues(b) ==
  [c \in EmptyCells(b) |->
     GameValue([b EXCEPT ![c[1] + 1][c[2] + 1] = ToMove(b)], Opponent(ToMove(b)))]

OneMoveFromWinning == <<<<X, X, EMPTY>>, <<O, O, EMPTY>>, <<EMPTY, EMPTY, EMPTY>>>>

\* ----------------------------------------------------------------- claims
\* C1: on every board reached by legal play that is not over, the move
\* minimax returns has the best game-theoretic value among the legal moves
\* (the maximum when X is to move, the minimum when O is); on the board
\* [[X,X,_],[O,O,_],[_,_,_]] it is the winning move (0, 2).
C1_MinimaxIsOptimal ==
  (pc = "searched" /\ ~GameIsOver(board)) =>
     /\ \E values \in {MoveValues(board)} :
          /\ ret \in DOMAIN values
          /\ values[ret] = IF ToMove(board) = X
                           THEN Max({values[c] : c \in DOMAIN values})
                           ELSE Min({values[c] : c \in DOMAIN values})
     /\ (board = OneMoveFromWinning => ret = <<0, 2>>)

C1_Witness == pc = "searched" /\ board = OneMoveFromWinning /\ ret = <<0, 2>>

\* C3: minimax returns None on a terminal board, and on a board that is not
\* terminal it returns an empty cell of that board, never None.
C3_MinimaxReturnsLegalMove ==
  pc = "searched" =>
     IF GameIsOver(board)
     THEN ret = NoAction
     ELSE ret # NoAction /\ ret \in EmptyCells(board)

C3_Witness ==
  /\ pc = "searched"
  /\ ~GameIsOver(board)
  /\ ret \in EmptyCells(board)
  /\ Marked(board, X) = Marked(board, O) + 1

\* C10: in every board reached by legal play X has as many marks as O or
\* one more, the empty cells and the marks add up to 9, X and O never both
\* hold a complete line, and every move hands the turn to the other mark.
C10_PlayInvariant ==
  /\ Marked(board, X) - Marked(board, O) \in {0, 1}
  /\ Cardinality(actions(board)) + Marked(board, X) + Marked(board, O) = 9
  /\ ~(HasLine(board, X) /\ HasLine(board, O))
  /\ player(board) \in {X, O}
  /\ ~terminal(board) =>
        \A action \in actions(board) :
           player(result(board, action)) = Opponent(player(board))

C10_Witness ==
  /\ Marked(board, X) = 5
  /\ Marked(board, O) = 4
  /\ HasLine(board, X)

\* C2: self-play from the empty board, each side taking the move minimax
\* returns (whatever the iteration order), ends, and ends in a draw.
C2_SelfPlayEndsInDraw ==
  /\ <>(pc = "over")
  /\ [](pc = "over" =>
         /\ GameIsOver(board)
         /\ ~HasLine(board, X) /\ ~HasLine(board, O)
         /\ winner(board) = None
         /\ utility(board) = 0)

C2_Witness == pc = "over" /\ EmptyCells(board) = {} /\ utility(board) = 0

\* C7: on a board where at most one mark holds a complete line, winner
\* returns mark M exactly when some row, column or diagonal holds three M,
\* and None when no line is complete, also when the centre is empty.
C7_WinnerIsCompleteLine ==
  (pc = "evaluated" /\ ~(HasLine(board, X) /\ HasLine(board, O))) =>
     /\ \A m \in {X, O} : (ret.winner = m) <=> HasLine(board, m)
     /\ (~HasLine(board, X) /\ ~HasLine(board, O)) => ret.winner = None

C7_Witness ==
  /\ pc = "evaluated"
  /\ board[2][2] = EMPTY /\ board[1][3] = EMPTY /\ board[3][1] = EMPTY
  /\ board[1][1] = X /\ board[3][3] = X
  /\ ret.winner = None

\* C9: terminal is true exactly when winner is not None or no cell is
\* empty; a terminal board has no action or has a winner; and on a terminal
\* board utility is +1 for winner X, -1 for winner O and 0 otherwise.
C9_TerminalAndUtility ==
  pc = "evaluated" =>
     /\ ret.terminal <=> (ret.winner # None \/ EmptyCells(board) = {})
     /\ ret.terminal => (ret.actions = {} \/ ret.winner # None)
     /\ ret.terminal =>
          ret.utility = IF ret.winner = X THEN 1 ELSE IF ret.winner = O THEN -1 ELSE 0

C9_Witness ==
  /\ pc = "evaluated"
  /\ ret.terminal
  /\ ret.winner = None
  /\ ret.actions = {}
  /\ ret.utility = 0

\* a step in which result() is called and comes back
ResultStep == pc = "idle" /\ pc' \in {"returned", "raised"}

SharedRows(ref1, ref2) == {ref1[1], ref1[2], ref1[3]} \cap {ref2[1], ref2[2], ref2[3]}

\* C4: a call of result leaves its input board as it was, cell for cell,
\* whether it returns or raises, and the board it returns has no row list
\* in common with the input.
C4_ResultDoesNotMutate ==
  [][ResultStep =>
       /\ b_ref' = b_ref
       /\ Deref(heap', b_ref') = Deref(heap, b_ref)
       /\ pc' = "returned" => SharedRows(ret'.ref, b_ref') = {}]_vars

C4_Witness ==
  /\ pc = "returned"
  /\ Marked(Deref(heap, b_ref), X) = 2
  /\ Marked(Deref(heap, b_ref), O) = 1
  /\ Marked(Deref(heap, ret.ref), O) = 2
  /\ SharedRows(ret.ref, b_ref) = {}

InGrid(action) == action[1] \in 0..2 /\ action[2] \in 0..2

\* C5: for a move inside the grid, result raises and leaves the board as it
\* was when the cell is taken; when the cell is empty it raises nothing and
\* returns the board with the mover's mark in that cell and nothing else
\* changed.
C5_ResultChecksOccupancy ==
  [][(ResultStep /\ InGrid(arg')) =>
       LET b == Deref(heap, b_ref)
           row == arg'[1] + 1
           column == arg'[2] + 1
       IN IF b[row][column] # EMPTY
          THEN /\ pc' = "raised"
               /\ ret'.exc = "Exception"
               /\ ret'.ref = NoBoard
               /\ Deref(heap', b_ref') = b
          ELSE /\ pc' = "returned"
               /\ ret'.exc = None
               /\ Deref(heap', ret'.ref) = [b EXCEPT ![row][column] = ToMove(b)]]_vars

C5_Witness ==
  /\ pc = "raised"
  /\ InGrid(arg)
  /\ Deref(heap, b_ref)[arg[1] + 1][arg[2] + 1] = O
  /\ ret.exc = "Exception"

\* C6: result raises, and returns no board, for every pair of integers that
\* is not one of actions(board), a negative coordinate included.
C6_ResultRejectsInvalidAction ==
  (pc \in {"returned", "raised"} /\ arg \notin actions(Deref(heap, b_ref))) =>
     pc = "raised" /\ ret.ref = NoBoard

\* C8: every call of the search is on a board with one empty cell fewer
\* than its caller's, no more calls are nested than the input board has
\* empty cells, a terminal board is never expanded, and minimax returns.
C8_SearchTerminates ==
  /\ [](/\ Len(stack) <= Marked(board, EMPTY) + 1
        /\ \A i \in 1..Len(stack) :
             /\ i > 1 => Marked(stack[i].board, EMPTY) = Marked(stack[i - 1].board, EMPTY) - 1
             /\ stack[i].at # "entry" => ~GameIsOver(stack[i].board))
  /\ <>(pc = "done")

C8_Witness ==
  /\ pc = "search"
  /\ Marked(board, EMPTY) = 2
  /\ Len(stack) = 3
  /\ GameIsOver(stack[3].board)
====
